---- MODULE Spec2Model ----
(***************************************************************************)
(* InstanceTypeProvider (pkg/cloudprovider/instancetypes.go): the catalog  *)
(* cache, the zone-mapping cache, createOfferings and List with its        *)
(* composite cache key, together with the collaborators List reads: the    *)
(* EC2 API, the subnet provider, the unavailable-offerings cache and the   *)
(* pricing provider.                                                       *)
(*                                                                         *)
(* Go slices built by ranging over a map or a set (createOfferings' result,*)
(* List's result) have an unspecified order; they are modelled by the bag  *)
(* of their elements, which keeps duplicates visible.                      *)
(***************************************************************************)
EXTENDS Bags, FiniteSets, Integers, Sequences, TLC

VARIABLES
    last,                      \* what List took and returned, if the last step was a call of it
    composed,                  \* what the most recent createOfferings call took and returned
    cache,                     \* p.cache: live items, oldest insertion first
    instanceTypesSeqNum,       \* p.instanceTypesSeqNum
    cm,                        \* p.cm: the value HasChanged saw last, per key
    unavailableOfferings,      \* p.unavailableOfferings: [SeqNum, items]
    pricingProvider,           \* p.pricingProvider: [spot, onDemand] price tables
    ec2InstanceTypes,          \* what DescribeInstanceTypes lists, page by page
    ec2InstanceTypeOfferings,  \* what DescribeInstanceTypeOfferings lists, page by page
    subnets,                   \* what subnetProvider.List finds, per subnet selector
    changes,                   \* how often a collaborator's data has changed so far
    inflight                   \* the List calls that run concurrently: position and locals

vars == <<last, composed, cache, instanceTypesSeqNum, cm, unavailableOfferings,
          pricingProvider, ec2InstanceTypes, ec2InstanceTypeOfferings, subnets, changes,
          inflight>>

-----------------------------------------------------------------------------
(* Bounds *)

MaxSeqNum == 2                 \* catalog refreshes in one behaviour
MaxChanges == 1                \* changes of the collaborators' data in one behaviour
MaxCacheItems == 4             \* live items of p.cache

-----------------------------------------------------------------------------
(* Values *)

Nil == "nil"
Spot == "spot"                                 \* ec2.UsageClassTypeSpot
OnDemand == "on-demand"                        \* ec2.UsageClassTypeOnDemand
CapacityBlock == "capacity-block"              \* a usage class the switch does not know
InstanceTypesCacheKey == "types"
InstanceTypeZonesCacheKeyPrefix == "zones:"

DescribeInstanceTypes == "DescribeInstanceTypes"
DescribeInstanceTypeOfferings == "DescribeInstanceTypeOfferings"
SubnetList == "subnetProvider.List"

ErrInstanceTypes == "fetching instance types using ec2.DescribeInstanceTypes"
ErrSubnets == "subnetProvider.List failed"
ErrNoSubnets == "no subnets matched selector"
ErrOfferings == "describing instance type zone offerings"

InstanceTypeNames == {"m5", "c5"}
Zones == {"a", "b", "c"}
UsageClasses == {Spot, OnDemand, CapacityBlock}

NoPrice == 0                   \* the float64 zero value of a lookup that found nothing

Range(s) == {s[i] : i \in DOMAIN s}

InstanceTypeInfo(name, classes) ==
    [InstanceType |-> name, SupportedUsageClasses |-> classes]

InstanceTypeOffering(name, zone) == [InstanceType |-> name, Location |-> zone]

Subnet(zone) == [AvailabilityZone |-> zone]

KubeletConfigurations == {[MaxPods |-> 110]}

SubnetSelectors == <<[Name |-> "private"], [Name |-> "public"]>>

NodeTemplates ==
    { [UID |-> "uid1", SubnetSelector |-> SubnetSelectors[1]],
      [UID |-> "uid2", SubnetSelector |-> SubnetSelectors[2]] }

-----------------------------------------------------------------------------
(* go-cache, as the provider uses it: every item is stored with the same   *)
(* TTL, so items expire in the order they were inserted and the live items *)
(* are a suffix of the insertion order.                                    *)

CacheHas(c, key) == \E i \in DOMAIN c : c[i].key = key

CacheGet(c, key) ==
    IF CacheHas(c, key)
    THEN [ok |-> TRUE, item |-> c[CHOOSE i \in DOMAIN c : c[i].key = key].value]
    ELSE [ok |-> FALSE, item |-> << >>]

CacheSetDefault(c, key, value) ==
    Append(SelectSeq(c, LAMBDA e : e.key # key), [key |-> key, value |-> value])

CacheKeys(c) == {c[i].key : i \in DOMAIN c}

-----------------------------------------------------------------------------
(* hashstructure.Hash and the cache keys.  A hash is modelled by a number  *)
(* computed from the content of the value, distinct for distinct contents  *)
(* of the values that occur here.                                          *)

RECURSIVE Pow(_, _)
Pow(b, n) == IF n = 0 THEN 1 ELSE b * Pow(b, n - 1)

ZoneIndex(z) == CASE z = "a" -> 0 [] z = "b" -> 1 [] z = "c" -> 2
InstanceTypeIndex(t) == CASE t = "m5" -> 0 [] t = "c5" -> 1

RECURSIVE ZoneMask(_)
ZoneMask(zones) ==
    IF zones = {} THEN 0
    ELSE LET z == CHOOSE y \in zones : TRUE
         IN  Pow(2, ZoneIndex(z)) + ZoneMask(zones \ {z})

\* Hash(instanceTypeZones, SlicesAsSets): one digit per instance type, 0 when
\* the map has no entry for it, else 1 + the bit mask of its zone set.
RECURSIVE HashEntries(_, _)
HashEntries(zm, names) ==
    IF names = {} THEN 0
    ELSE LET t == CHOOSE y \in names : TRUE
             base == Pow(2, Cardinality(Zones)) + 1
         IN  (1 + ZoneMask(zm[t])) * Pow(base, InstanceTypeIndex(t))
                 + HashEntries(zm, names \ {t})

HashInstanceTypeZones(zm) == HashEntries(zm, DOMAIN zm)

HashKubeletConfiguration(kc) == kc.MaxPods

HashSubnetSelector(selector) ==
    CHOOSE i \in DOMAIN SubnetSelectors : SubnetSelectors[i] = selector

\* Mutant: the zone map is cached under the identity of the node template.
InstanceTypeZonesCacheKeyByUID(nodeTemplate) ==
    InstanceTypeZonesCacheKeyPrefix \o nodeTemplate.UID

InstanceTypeZonesCacheKey(nodeTemplate) ==
    InstanceTypeZonesCacheKeyPrefix \o ToString(HashSubnetSelector(nodeTemplate.SubnetSelector))

\* Mutant: the key leaves out the catalog sequence number.
ListCacheKeyWithoutSeqNum(seqNum, unavailableSeqNum, nodeTemplate, instanceTypeZones, kc) ==
    ToString(unavailableSeqNum) \o "-" \o nodeTemplate.UID
        \o "-" \o ToString(HashInstanceTypeZones(instanceTypeZones))
        \o "-" \o ToString(HashKubeletConfiguration(kc))

\* Mutant: the key leaves out the sequence number of the unavailable offerings.
ListCacheKeyWithoutUnavailableSeqNum(seqNum, unavailableSeqNum, nodeTemplate, instanceTypeZones, kc) ==
    ToString(seqNum) \o "-" \o nodeTemplate.UID
        \o "-" \o ToString(HashInstanceTypeZones(instanceTypeZones))
        \o "-" \o ToString(HashKubeletConfiguration(kc))

\* fmt.Sprintf("%d-%d-%s-%016x-%016x", ...)
ListCacheKey(seqNum, unavailableSeqNum, nodeTemplate, instanceTypeZones, kc) ==
    ToString(seqNum) \o "-" \o ToString(unavailableSeqNum) \o "-" \o nodeTemplate.UID
        \o "-" \o ToString(HashInstanceTypeZones(instanceTypeZones))
        \o "-" \o ToString(HashKubeletConfiguration(kc))

-----------------------------------------------------------------------------
(* Collaborators that List only reads *)

\* unavailableOfferings.IsUnavailable(instanceType, zone, capacityType)
IsUnavailable(uo, instanceType, zone, capacityType) ==
    <<instanceType, zone, capacityType>> \in uo.items

\* pricingProvider.SpotPrice(instanceType, zone) -> (price, ok)
SpotPrice(pp, instanceType, zone) ==
    IF <<instanceType, zone>> \in DOMAIN pp.spot
    THEN [price |-> pp.spot[<<instanceType, zone>>], ok |-> TRUE]
    ELSE [price |-> NoPrice, ok |-> FALSE]

\* pricingProvider.OnDemandPrice(instanceType) -> (price, ok)
OnDemandPrice(pp, instanceType) ==
    IF instanceType \in DOMAIN pp.onDemand
    THEN [price |-> pp.onDemand[instanceType], ok |-> TRUE]
    ELSE [price |-> NoPrice, ok |-> FALSE]

-----------------------------------------------------------------------------
(* createOfferings *)

BagOfSeq(s) == [x \in Range(s) |-> Cardinality({i \in DOMAIN s : s[i] = x})]

RECURSIVE SeqOfSet(_)
SeqOfSet(S) ==
    IF S = {} THEN << >>
    ELSE LET x == CHOOSE y \in S : TRUE IN <<x>> \o SeqOfSet(S \ {x})

\* Mutant: the usage classes are ranged over as listed, not as a set.
CapacityTypesAsListed(instanceType) == instanceType.SupportedUsageClasses

\* sets.NewString(aws.StringValueSlice(instanceType.SupportedUsageClasses)...)
CapacityTypes(instanceType) == SeqOfSet(Range(instanceType.SupportedUsageClasses))

\* Mutant: an insufficient-capacity mark on any capacity type of the zone
\* makes the offering unavailable.
OfferingsOfZoneWide(instanceType, zone, capacityType, uo, pp) ==
    LET isUnavailable == \E ct \in UsageClasses :
                             IsUnavailable(uo, instanceType.InstanceType, zone, ct)
        Offering(lookup) == [Zone |-> zone,
                             CapacityType |-> capacityType,
                             Price |-> lookup.price,
                             Available |-> (~isUnavailable /\ lookup.ok)]
    IN  CASE capacityType = Spot ->
                 <<Offering(SpotPrice(pp, instanceType.InstanceType, zone))>>
          [] capacityType = OnDemand ->
                 <<Offering(OnDemandPrice(pp, instanceType.InstanceType))>>
          [] OTHER -> << >>

\* Mutant: an offering whose price lookup finds nothing is left out.
OfferingsOfPricedOnly(instanceType, zone, capacityType, uo, pp) ==
    LET isUnavailable == IsUnavailable(uo, instanceType.InstanceType, zone, capacityType)
        Offering(lookup) ==
            IF lookup.ok
            THEN << [Zone |-> zone, CapacityType |-> capacityType,
                     Price |-> lookup.price, Available |-> ~isUnavailable] >>
            ELSE << >>
    IN  CASE capacityType = Spot ->
                 Offering(SpotPrice(pp, instanceType.InstanceType, zone))
          [] capacityType = OnDemand ->
                 Offering(OnDemandPrice(pp, instanceType.InstanceType))
          [] OTHER -> << >>

\* One pass of the inner loop body: the offering appended for (zone,
\* capacityType), or nothing for a capacity type the switch does not know.
OfferingsOf(instanceType, zone, capacityType, uo, pp) ==
    LET isUnavailable == IsUnavailable(uo, instanceType.InstanceType, zone, capacityType)
        Offering(lookup) == [Zone |-> zone,
                             CapacityType |-> capacityType,
                             Price |-> lookup.price,
                             Available |-> (~isUnavailable /\ lookup.ok)]
    IN  CASE capacityType = Spot ->
                 <<Offering(SpotPrice(pp, instanceType.InstanceType, zone))>>
          [] capacityType = OnDemand ->
                 <<Offering(OnDemandPrice(pp, instanceType.InstanceType))>>
          [] OTHER -> << >>

RECURSIVE AppendOfferings(_, _, _, _, _, _)
AppendOfferings(offerings, instanceType, zoneSeq, capacityTypes, uo, pp) ==
    IF zoneSeq = << >> THEN offerings
    ELSE LET RECURSIVE Inner(_, _)
             Inner(acc, i) ==
                 IF i > Len(capacityTypes) THEN acc
                 ELSE Inner(acc \o OfferingsOf(instanceType, Head(zoneSeq),
                                                capacityTypes[i], uo, pp), i + 1)
         IN  AppendOfferings(Inner(offerings, 1), instanceType, Tail(zoneSeq),
                             capacityTypes, uo, pp)

createOfferings(instanceType, zones, uo, pp) ==
    BagOfSeq(AppendOfferings(<< >>, instanceType, SeqOfSet(zones),
                             CapacityTypes(instanceType), uo, pp))

-----------------------------------------------------------------------------
(* pretty.ChangeMonitor: per key, the value the last HasChanged call was   *)
(* given; HasChanged answers whether the new value differs and keeps it.   *)

EmptyMap == [name \in {} |-> Nil]             \* an empty (or nil) Go map

NewChangeMonitor ==
    [instanceTypes |-> [seen |-> FALSE, value |-> EmptyMap],
     zonalOfferings |-> [seen |-> FALSE, value |-> [Name |-> ""]]]

HasChanged(entry, value) == ~entry.seen \/ entry.value # value

-----------------------------------------------------------------------------
(* getInstanceTypes *)

\* instanceTypes[name] = instanceType, for every record of one page
RECURSIVE PutInstanceTypes(_, _, _)
PutInstanceTypes(instanceTypes, page, i) ==
    IF i > Len(page) THEN instanceTypes
    ELSE PutInstanceTypes(
             [name \in DOMAIN instanceTypes \cup {page[i].InstanceType} |->
                 IF name = page[i].InstanceType THEN page[i] ELSE instanceTypes[name]],
             page, i + 1)

\* a counter that is set instead of added to
StoreUint64(addr, delta) == delta

\* atomic.AddUint64: the new value of the counter; 2^64 refreshes are out of
\* reach, so the width does not show
AddUint64(addr, delta) == addr + delta

\* the map the page callback has filled once `delivered` pages have come in
RECURSIVE InstanceTypesOfPages(_, _)
InstanceTypesOfPages(pages, delivered) ==
    IF delivered = 0 THEN EmptyMap
    ELSE PutInstanceTypes(InstanceTypesOfPages(pages, delivered - 1), pages[delivered], 1)

\* Mutant: the cached catalog is never found, every call fetches it again.
getInstanceTypesUncached(c, seqNum, monitor, pages, delivered, failed) ==
    LET instanceTypes == InstanceTypesOfPages(pages, delivered)
    IN  IF failed
        THEN [instanceTypes |-> EmptyMap, err |-> ErrInstanceTypes, cache |-> c,
              seqNum |-> seqNum, cm |-> monitor, calls |-> {DescribeInstanceTypes}]
        ELSE [instanceTypes |-> instanceTypes, err |-> Nil,
              cache |-> CacheSetDefault(c, InstanceTypesCacheKey, instanceTypes),
              seqNum |-> seqNum + 1,
              cm |-> [monitor EXCEPT !.instanceTypes =
                                         [seen |-> TRUE, value |-> instanceTypes]],
              calls |-> {DescribeInstanceTypes}]

\* Mutant: the pages that came in before the error are cached all the same.
getInstanceTypesKeepingPages(c, seqNum, monitor, pages, delivered, failed) ==
    LET cached == CacheGet(c, InstanceTypesCacheKey)
        instanceTypes == InstanceTypesOfPages(pages, delivered)
    IN  IF cached.ok
        THEN [instanceTypes |-> cached.item, err |-> Nil, cache |-> c,
              seqNum |-> seqNum, cm |-> monitor, calls |-> {}]
        ELSE [instanceTypes |-> IF failed THEN EmptyMap ELSE instanceTypes,
              err |-> IF failed THEN ErrInstanceTypes ELSE Nil,
              cache |-> CacheSetDefault(c, InstanceTypesCacheKey, instanceTypes),
              seqNum |-> seqNum + 1,
              cm |-> [monitor EXCEPT !.instanceTypes =
                                         [seen |-> TRUE, value |-> instanceTypes]],
              calls |-> {DescribeInstanceTypes}]

\* `failed`: DescribeInstanceTypesPagesWithContext returns an error (a failed
\* request, a cancelled context) after `delivered` pages.
getInstanceTypes(c, seqNum, monitor, pages, delivered, failed) ==
    LET cached == CacheGet(c, InstanceTypesCacheKey)
        instanceTypes == InstanceTypesOfPages(pages, delivered)
    IN  IF cached.ok
        THEN [instanceTypes |-> cached.item, err |-> Nil, cache |-> c,
              seqNum |-> seqNum, cm |-> monitor, calls |-> {}]
        ELSE IF failed
        THEN [instanceTypes |-> EmptyMap, err |-> ErrInstanceTypes, cache |-> c,
              seqNum |-> seqNum, cm |-> monitor, calls |-> {DescribeInstanceTypes}]
        ELSE [instanceTypes |-> instanceTypes, err |-> Nil,
              cache |-> CacheSetDefault(c, InstanceTypesCacheKey, instanceTypes),
              seqNum |-> AddUint64(seqNum, 1),
              cm |-> [monitor EXCEPT !.instanceTypes =
                                         [seen |-> TRUE, value |-> instanceTypes]],
              calls |-> {DescribeInstanceTypes}]

-----------------------------------------------------------------------------
(* getInstanceTypeZones *)

\* Mutant: the entry of the instance type is made before the zone is looked at.
InsertOfferingEntryFirst(instanceTypeZones, zones, offering) ==
    [name \in DOMAIN instanceTypeZones \cup {offering.InstanceType} |->
        (IF name \in DOMAIN instanceTypeZones THEN instanceTypeZones[name] ELSE {})
            \cup (IF name = offering.InstanceType /\ offering.Location \in zones
                  THEN {offering.Location} ELSE {})]

\* the page callback's body for one offering
InsertOffering(instanceTypeZones, zones, offering) ==
    IF offering.Location \in zones
    THEN [name \in DOMAIN instanceTypeZones \cup {offering.InstanceType} |->
             (IF name \in DOMAIN instanceTypeZones THEN instanceTypeZones[name] ELSE {})
                 \cup (IF name = offering.InstanceType THEN {offering.Location} ELSE {})]
    ELSE instanceTypeZones

RECURSIVE InsertOfferings(_, _, _, _)
InsertOfferings(instanceTypeZones, zones, page, i) ==
    IF i > Len(page) THEN instanceTypeZones
    ELSE InsertOfferings(InsertOffering(instanceTypeZones, zones, page[i]), zones, page, i + 1)

RECURSIVE InstanceTypeZonesOfPages(_, _, _)
InstanceTypeZonesOfPages(pages, delivered, zones) ==
    IF delivered = 0 THEN EmptyMap
    ELSE InsertOfferings(InstanceTypeZonesOfPages(pages, delivered - 1, zones),
                         zones, pages[delivered], 1)

\* Mutant: no check for an empty subnet list.
getInstanceTypeZonesAnySubnets(c, monitor, nodeTemplate, found, listFailed, pages, delivered, failed) ==
    LET cacheKey == InstanceTypeZonesCacheKey(nodeTemplate)
        cached == CacheGet(c, cacheKey)
        zones == {found[i].AvailabilityZone : i \in DOMAIN found}
        instanceTypeZones == InstanceTypeZonesOfPages(pages, delivered, zones)
        Failure(err, calls) == [instanceTypeZones |-> EmptyMap, err |-> err,
                                cache |-> c, cm |-> monitor, calls |-> calls]
    IN  IF cached.ok
        THEN [instanceTypeZones |-> cached.item, err |-> Nil, cache |-> c,
              cm |-> monitor, calls |-> {}]
        ELSE IF listFailed
        THEN Failure(ErrSubnets, {SubnetList})
        ELSE IF failed
        THEN Failure(ErrOfferings, {SubnetList, DescribeInstanceTypeOfferings})
        ELSE [instanceTypeZones |-> instanceTypeZones, err |-> Nil,
              cache |-> CacheSetDefault(c, cacheKey, instanceTypeZones),
              cm |-> [monitor EXCEPT !.zonalOfferings =
                                         [seen |-> TRUE,
                                          value |-> nodeTemplate.SubnetSelector]],
              calls |-> {SubnetList, DescribeInstanceTypeOfferings}]

\* Mutant: the zone map built from the pages that came in is cached although
\* the offerings query failed.
getInstanceTypeZonesKeepingPages(c, monitor, nodeTemplate, found, listFailed, pages, delivered, failed) ==
    LET cacheKey == InstanceTypeZonesCacheKey(nodeTemplate)
        cached == CacheGet(c, cacheKey)
        zones == {found[i].AvailabilityZone : i \in DOMAIN found}
        instanceTypeZones == InstanceTypeZonesOfPages(pages, delivered, zones)
        Failure(err, calls) == [instanceTypeZones |-> EmptyMap, err |-> err,
                                cache |-> c, cm |-> monitor, calls |-> calls]
    IN  IF cached.ok
        THEN [instanceTypeZones |-> cached.item, err |-> Nil, cache |-> c,
              cm |-> monitor, calls |-> {}]
        ELSE IF listFailed
        THEN Failure(ErrSubnets, {SubnetList})
        ELSE IF Len(found) = 0
        THEN Failure(ErrNoSubnets, {SubnetList})
        ELSE IF failed
        THEN [instanceTypeZones |-> EmptyMap, err |-> ErrOfferings,
              cache |-> CacheSetDefault(c, cacheKey, instanceTypeZones),
              cm |-> monitor, calls |-> {SubnetList, DescribeInstanceTypeOfferings}]
        ELSE [instanceTypeZones |-> instanceTypeZones, err |-> Nil,
              cache |-> CacheSetDefault(c, cacheKey, instanceTypeZones),
              cm |-> [monitor EXCEPT !.zonalOfferings =
                                         [seen |-> TRUE,
                                          value |-> nodeTemplate.SubnetSelector]],
              calls |-> {SubnetList, DescribeInstanceTypeOfferings}]

\* `found`, `listFailed`: what subnetProvider.List returns; `failed` after
\* `delivered` pages: what DescribeInstanceTypeOfferingsPagesWithContext does.
getInstanceTypeZones(c, monitor, nodeTemplate, found, listFailed, pages, delivered, failed) ==
    LET cacheKey == InstanceTypeZonesCacheKey(nodeTemplate)
        cached == CacheGet(c, cacheKey)
        zones == {found[i].AvailabilityZone : i \in DOMAIN found}
        instanceTypeZones == InstanceTypeZonesOfPages(pages, delivered, zones)
        Failure(err, calls) == [instanceTypeZones |-> EmptyMap, err |-> err,
                                cache |-> c, cm |-> monitor, calls |-> calls]
    IN  IF cached.ok
        THEN [instanceTypeZones |-> cached.item, err |-> Nil, cache |-> c,
              cm |-> monitor, calls |-> {}]
        ELSE IF listFailed
        THEN Failure(ErrSubnets, {SubnetList})
        ELSE IF Len(found) = 0
        THEN Failure(ErrNoSubnets, {SubnetList})
        ELSE IF failed
        THEN Failure(ErrOfferings, {SubnetList, DescribeInstanceTypeOfferings})
        ELSE [instanceTypeZones |-> instanceTypeZones, err |-> Nil,
              cache |-> CacheSetDefault(c, cacheKey, instanceTypeZones),
              cm |-> [monitor EXCEPT !.zonalOfferings =
                                         [seen |-> TRUE,
                                          value |-> nodeTemplate.SubnetSelector]],
              calls |-> {SubnetList, DescribeInstanceTypeOfferings}]

-----------------------------------------------------------------------------
(* List *)

NewInstanceType(info, kc, nodeTemplate, offerings) ==
    [Name |-> info.InstanceType,
     Offerings |-> offerings,
     KubeletConfiguration |-> kc,
     NodeTemplate |-> nodeTemplate.UID]

\* instanceTypeZones[instanceTypeName], the nil set when the map has no entry
ZonesOf(instanceTypeZones, name) ==
    IF name \in DOMAIN instanceTypeZones THEN instanceTypeZones[name] ELSE {}

RECURSIVE AppendInstanceTypes(_, _, _, _, _, _, _)
AppendInstanceTypes(result, names, instanceTypes, instanceTypeZones, kc, nodeTemplate, env) ==
    IF names = << >> THEN result
    ELSE LET i == instanceTypes[Head(names)]
             offerings == createOfferings(i, ZonesOf(instanceTypeZones, i.InstanceType),
                                          env.uo, env.pp)
         IN  AppendInstanceTypes(
                 Append(result, NewInstanceType(i, kc, nodeTemplate, offerings)),
                 Tail(names), instanceTypes, instanceTypeZones, kc, nodeTemplate, env)

\* Mutant: an instance type the zone map has no entry for is left out.
ComposeZonedOnly(instanceTypes, instanceTypeZones, kc, nodeTemplate, env) ==
    BagOfSeq(AppendInstanceTypes(<< >>,
                                 SeqOfSet(DOMAIN instanceTypes \cap DOMAIN instanceTypeZones),
                                 instanceTypes, instanceTypeZones, kc, nodeTemplate, env))

\* the loop of List over a catalog and a zone map
Compose(instanceTypes, instanceTypeZones, kc, nodeTemplate, env) ==
    BagOfSeq(AppendInstanceTypes(<< >>, SeqOfSet(DOMAIN instanceTypes), instanceTypes,
                                 instanceTypeZones, kc, nodeTemplate, env))

\* env: the collaborators' state; up: what the upstream calls do if made
ListCall(c, seqNum, monitor, kc, nodeTemplate, env, up) ==
    LET t == getInstanceTypes(c, seqNum, monitor, env.typePages, up.typesDelivered,
                              up.typesFailed)
        z == getInstanceTypeZones(t.cache, t.cm, nodeTemplate, env.found, up.listFailed,
                                  env.offeringPages, up.offeringsDelivered,
                                  up.offeringsFailed)
        key == ListCacheKey(t.seqNum, env.uo.SeqNum, nodeTemplate, z.instanceTypeZones, kc)
        item == CacheGet(z.cache, key)
        result == Compose(t.instanceTypes, z.instanceTypeZones, kc, nodeTemplate, env)
        Return(res, err, c2, monitor2, calls, hit, k) ==
            [result |-> res, err |-> err, cache |-> c2, seqNum |-> t.seqNum,
             cm |-> monitor2, calls |-> calls, hit |-> hit, key |-> k]
    IN  IF t.err # Nil
        THEN Return(EmptyBag, t.err, t.cache, t.cm, t.calls, FALSE, "")
        ELSE IF z.err # Nil
        THEN Return(EmptyBag, z.err, z.cache, z.cm, t.calls \cup z.calls, FALSE, "")
        ELSE IF item.ok
        THEN Return(item.item, Nil, z.cache, z.cm, t.calls \cup z.calls, TRUE, key)
        ELSE Return(result, Nil, CacheSetDefault(z.cache, key, result), z.cm,
                    t.calls \cup z.calls, FALSE, key)

-----------------------------------------------------------------------------
(* What the collaborators can hold *)

InitialCatalog ==
    << <<InstanceTypeInfo("m5", <<Spot, OnDemand>>)>>,
       <<InstanceTypeInfo("c5", <<OnDemand, CapacityBlock, OnDemand>>)>> >>

Catalogs == {InitialCatalog, << <<InstanceTypeInfo("m5", <<Spot, OnDemand, Spot>>)>> >>}

InitialOfferingListing ==
    << <<InstanceTypeOffering("m5", "a"), InstanceTypeOffering("m5", "b")>>,
       <<InstanceTypeOffering("c5", "a"), InstanceTypeOffering("m5", "c"),
         InstanceTypeOffering("m5", "a")>> >>

OfferingListings ==
    { InitialOfferingListing,
      << <<InstanceTypeOffering("m5", "a"), InstanceTypeOffering("c5", "c")>> >> }

SubnetLists ==
    { << >>, <<Subnet("a")>>, <<Subnet("a"), Subnet("b"), Subnet("a")>> }

FullPrices ==
    [spot |-> [k \in InstanceTypeNames \X Zones |-> 3],
     onDemand |-> [t \in InstanceTypeNames |-> 5]]

PartialPrices ==
    [spot |-> [k \in (InstanceTypeNames \X Zones) \ {<<"m5", "a">>} |-> 2],
     onDemand |-> [t \in {"m5"} |-> 5]]

PriceTables == {FullPrices, PartialPrices}

\* the offerings an insufficient-capacity error is reported for
Markable == {<<"m5", "a", Spot>>}

\* the subnet selector whose matching subnets change
ChangingSelector == HashSubnetSelector(SubnetSelectors[1])

NoCall == "no call"

\* the value of `last` when the most recent step was not a List call
NoList ==
    [kc |-> [MaxPods |-> 0],
     nodeTemplate |-> [UID |-> "", SubnetSelector |-> [Name |-> ""]],
     result |-> EmptyBag, err |-> NoCall, hit |-> FALSE, key |-> "", calls |-> {},
     up |-> [typesDelivered |-> 0, typesFailed |-> FALSE, listFailed |-> FALSE,
             offeringsDelivered |-> 0, offeringsFailed |-> FALSE]]

Env ==
    [uo |-> unavailableOfferings, pp |-> pricingProvider,
     typePages |-> ec2InstanceTypes, offeringPages |-> ec2InstanceTypeOfferings,
     found |-> << >>]

\* the goroutines that call List concurrently
Callers == {"g1", "g2"}

\* a call of List that has not made its first step: its position, its locals,
\* the counters as its last synchronizing operation left them, and the value
\* its own catalog refresh gave the sequence number (0: no refresh)
NewCall ==
    [pc |-> "getInstanceTypes", instanceTypes |-> EmptyMap, instanceTypeZones |-> EmptyMap,
     seqNum |-> 0, unavailableSeqNum |-> 0, key |-> "", result |-> EmptyBag, err |-> Nil,
     hit |-> FALSE, seen |-> 0, unavailableSeen |-> 0, refreshedTo |-> 0]

-----------------------------------------------------------------------------
(* The provider and its collaborators as a state machine *)

Init ==
    /\ last = NoList
    /\ composed = [instanceType |-> InstanceTypeInfo("", << >>), zones |-> {},
                   offerings |-> EmptyBag, called |-> FALSE]
    /\ cache = << >>
    /\ instanceTypesSeqNum = 0
    /\ cm = NewChangeMonitor
    /\ unavailableOfferings = [SeqNum |-> 0, items |-> {}]
    /\ pricingProvider = FullPrices
    /\ ec2InstanceTypes = InitialCatalog
    /\ ec2InstanceTypeOfferings = InitialOfferingListing
    /\ subnets = [i \in DOMAIN SubnetSelectors |-> <<Subnet("a"), Subnet("b"), Subnet("a")>>]
    /\ changes = 0
    /\ inflight = [g \in Callers |-> NewCall]

\* One call of p.List(ctx, kc, nodeTemplate), start to return.
List(kc, nodeTemplate, up) ==
    \E r \in {ListCall(cache, instanceTypesSeqNum, cm, kc, nodeTemplate,
                        [Env EXCEPT !.found = subnets[HashSubnetSelector(
                                                  nodeTemplate.SubnetSelector)]], up)} :
        /\ r.seqNum <= MaxSeqNum
        /\ Len(r.cache) <= MaxCacheItems
        /\ cache' = r.cache
        /\ instanceTypesSeqNum' = r.seqNum
        /\ cm' = r.cm
        /\ last' = [kc |-> kc, nodeTemplate |-> nodeTemplate, result |-> r.result,
                    err |-> r.err, hit |-> r.hit, key |-> r.key, calls |-> r.calls,
                    up |-> up]
        /\ UNCHANGED <<inflight, composed, unavailableOfferings, pricingProvider, ec2InstanceTypes,
                       ec2InstanceTypeOfferings, subnets, changes>>

\* What the upstream calls of one List call may do.  An outcome is chosen
\* only for a call that List makes: a cached catalog or zone map asks nothing.
Upstream(nodeTemplate) ==
    LET typesCalled == ~CacheHas(cache, InstanceTypesCacheKey)
        zonesCalled == ~CacheHas(cache, InstanceTypeZonesCacheKey(nodeTemplate))
        n == Len(ec2InstanceTypes)
        m == Len(ec2InstanceTypeOfferings)
    IN  { up \in [typesDelivered : 0..n, typesFailed : BOOLEAN, listFailed : BOOLEAN,
                  offeringsDelivered : 0..m, offeringsFailed : BOOLEAN] :
            /\ up.typesFailed <=> up.typesDelivered < n
            /\ up.offeringsFailed <=> up.offeringsDelivered < m
            /\ ~typesCalled => ~up.typesFailed
            /\ ~zonesCalled \/ up.typesFailed => ~up.listFailed /\ ~up.offeringsFailed
            /\ up.listFailed => ~up.offeringsFailed }

\* One more change of a collaborator's data.
Changed == changes < MaxChanges /\ changes' = changes + 1

\* Mutant: the cache is made with no expiration, an item stays for good.
ExpireNever ==
    /\ cache # << >>
    /\ cache' = cache
    /\ last' = NoList
    /\ UNCHANGED <<inflight, composed, instanceTypesSeqNum, cm, unavailableOfferings, pricingProvider,
                   ec2InstanceTypes, ec2InstanceTypeOfferings, subnets, changes>>

\* The oldest live item of p.cache reaches its TTL.
Expire ==
    /\ cache # << >>
    /\ cache' = Tail(cache)
    /\ last' = NoList
    /\ UNCHANGED <<inflight, composed, instanceTypesSeqNum, cm, unavailableOfferings, pricingProvider,
                   ec2InstanceTypes, ec2InstanceTypeOfferings, subnets, changes>>

\* unavailableOfferings.MarkUnavailable
MarkUnavailable(offering) ==
    /\ Changed
    /\ offering \notin unavailableOfferings.items
    /\ unavailableOfferings' = [SeqNum |-> unavailableOfferings.SeqNum + 1,
                                items |-> unavailableOfferings.items \cup {offering}]
    /\ last' = NoList
    /\ UNCHANGED <<inflight, composed, cache, instanceTypesSeqNum, cm, pricingProvider,
                   ec2InstanceTypes, ec2InstanceTypeOfferings, subnets>>

\* An entry of the unavailable-offerings cache reaches its TTL; only marked
\* offerings expire, so the marks bound these steps.
UnavailableExpire(offering) ==
    /\ offering \in unavailableOfferings.items
    /\ unavailableOfferings' = [SeqNum |-> unavailableOfferings.SeqNum + 1,
                                items |-> unavailableOfferings.items \ {offering}]
    /\ last' = NoList
    /\ UNCHANGED <<inflight, composed, cache, instanceTypesSeqNum, cm, pricingProvider,
                   ec2InstanceTypes, ec2InstanceTypeOfferings, subnets, changes>>

\* The pricing provider's background refresh swaps its tables.
UpdatePricing(tables) ==
    /\ Changed
    /\ tables # pricingProvider
    /\ pricingProvider' = tables
    /\ last' = NoList
    /\ UNCHANGED <<inflight, composed, cache, instanceTypesSeqNum, cm, unavailableOfferings,
                   ec2InstanceTypes, ec2InstanceTypeOfferings, subnets>>

\* EC2 starts listing other instance types.
UpdateInstanceTypes(pages) ==
    /\ Changed
    /\ pages # ec2InstanceTypes
    /\ ec2InstanceTypes' = pages
    /\ last' = NoList
    /\ UNCHANGED <<inflight, composed, cache, instanceTypesSeqNum, cm, unavailableOfferings,
                   pricingProvider, ec2InstanceTypeOfferings, subnets>>

\* EC2 starts listing other zonal offerings.
UpdateInstanceTypeOfferings(pages) ==
    /\ Changed
    /\ pages # ec2InstanceTypeOfferings
    /\ ec2InstanceTypeOfferings' = pages
    /\ last' = NoList
    /\ UNCHANGED <<inflight, composed, cache, instanceTypesSeqNum, cm, unavailableOfferings,
                   pricingProvider, ec2InstanceTypes, subnets>>

\* The subnets a selector matches change.
UpdateSubnets(i, found) ==
    /\ Changed
    /\ found # subnets[i]
    /\ subnets' = [subnets EXCEPT ![i] = found]
    /\ last' = NoList
    /\ UNCHANGED <<inflight, composed, cache, instanceTypesSeqNum, cm, unavailableOfferings,
                   pricingProvider, ec2InstanceTypes, ec2InstanceTypeOfferings>>

Next ==
    \/ \E kc \in KubeletConfigurations, nodeTemplate \in NodeTemplates :
           \E up \in Upstream(nodeTemplate) : List(kc, nodeTemplate, up)
    \/ Expire
    \/ \E offering \in Markable : MarkUnavailable(offering)
    \/ \E offering \in Markable : UnavailableExpire(offering)
    \/ \E tables \in PriceTables : UpdatePricing(tables)
    \/ \E pages \in Catalogs : UpdateInstanceTypes(pages)
    \/ \E pages \in OfferingListings : UpdateInstanceTypeOfferings(pages)
    \/ \E found \in SubnetLists : UpdateSubnets(ChangingSelector, found)

Spec == Init /\ [][Next]_vars

-----------------------------------------------------------------------------
(* createOfferings on its own: the tracker's content and the price tables   *)
(* are drawn at the start, and each step composes the offerings of one      *)
(* instance type over one zone set.                                        *)

ComposeZones == {"a", "b"}

ComposeUsageClasses ==
    { << >>, <<Spot>>, <<OnDemand>>, <<Spot, OnDemand>>, <<OnDemand, Spot, OnDemand>>,
      <<Spot, CapacityBlock, Spot>>, <<CapacityBlock>>, <<CapacityBlock, OnDemand, Spot>> }

ComposeInfos == {InstanceTypeInfo("m5", classes) : classes \in ComposeUsageClasses}

ComposeTrackers ==
    { [SeqNum |-> Cardinality(items), items |-> items] :
        items \in SUBSET ({"m5"} \X ComposeZones \X {Spot, OnDemand}) }

ComposePriceTables ==
    { [spot |-> [k \in priced |-> 3], onDemand |-> [t \in names |-> 5]] :
        priced \in SUBSET ({"m5"} \X ComposeZones), names \in SUBSET {"m5"} }

InitCompose ==
    /\ last = NoList
    /\ composed = [instanceType |-> InstanceTypeInfo("", << >>), zones |-> {},
                   offerings |-> EmptyBag, called |-> FALSE]
    /\ cache = << >>
    /\ instanceTypesSeqNum = 0
    /\ cm = NewChangeMonitor
    /\ unavailableOfferings \in ComposeTrackers
    /\ pricingProvider \in ComposePriceTables
    /\ ec2InstanceTypes = InitialCatalog
    /\ ec2InstanceTypeOfferings = InitialOfferingListing
    /\ subnets = [i \in DOMAIN SubnetSelectors |-> << >>]
    /\ changes = 0
    /\ inflight = [g \in Callers |-> NewCall]

\* One call of p.createOfferings(ctx, instanceType, zones).
ComposeOfferings(instanceType, zones) ==
    /\ composed' = [instanceType |-> instanceType, zones |-> zones,
                    offerings |-> createOfferings(instanceType, zones,
                                                  unavailableOfferings, pricingProvider),
                    called |-> TRUE]
    /\ UNCHANGED <<inflight, last, cache, instanceTypesSeqNum, cm, unavailableOfferings, pricingProvider,
                   ec2InstanceTypes, ec2InstanceTypeOfferings, subnets, changes>>

NextCompose ==
    \E instanceType \in ComposeInfos, zones \in SUBSET ComposeZones :
        ComposeOfferings(instanceType, zones)

SpecCompose == InitCompose /\ [][NextCompose]_vars

-----------------------------------------------------------------------------
(* Properties of createOfferings, under SpecCompose *)

Recognized == {Spot, OnDemand}

\* whether the pricing provider has a price for the offering
PriceFound(pp, name, zone, capacityType) ==
    \/ capacityType = Spot /\ <<name, zone>> \in DOMAIN pp.spot
    \/ capacityType = OnDemand /\ name \in DOMAIN pp.onDemand

\* the offerings of bag B for one (zone, capacity type) pair
OfferingsAt(B, zone, capacityType) ==
    {o \in BagToSet(B) : o.Zone = zone /\ o.CapacityType = capacityType}

\* B holds exactly one offering for every pair of `pairs` and nothing else
ExactlyOnePerPair(B, pairs) ==
    /\ \A o \in BagToSet(B) : <<o.Zone, o.CapacityType>> \in pairs
    /\ \A pair \in pairs :
           /\ Cardinality(OfferingsAt(B, pair[1], pair[2])) = 1
           /\ \A o \in OfferingsAt(B, pair[1], pair[2]) : CopiesIn(o, B) = 1

\* C8. Offering completeness: createOfferings returns exactly one offering for
\* each pair of a zone of the zone set and a recognized (spot, on-demand) usage
\* class the instance type lists, whether the list repeats a class or holds an
\* unrecognized one, and no other offering.
C8_OfferingCompleteness ==
    composed.called =>
        ExactlyOnePerPair(
            composed.offerings,
            composed.zones
                \X (Range(composed.instanceType.SupportedUsageClasses) \cap Recognized))

\* C8 witness: two zones, a list that repeats spot and holds an unrecognized
\* class, composed into two offerings.
C8_Witness ==
    /\ composed.called
    /\ composed.instanceType.SupportedUsageClasses = <<Spot, CapacityBlock, Spot>>
    /\ composed.zones = ComposeZones
    /\ BagCardinality(composed.offerings) = 2

\* the availability of the offering of bag B for (zone, capacityType)
AvailableAt(B, zone, capacityType) ==
    \E o \in OfferingsAt(B, zone, capacityType) : o.Available

\* C9. Unavailability masking: an offering is available exactly if the tracker
\* does not mark its (type, zone, option) and its price lookup found data; and
\* marking one more triple makes that offering unavailable and changes the
\* availability of no other offering of the type.
C9_UnavailabilityMasking ==
    composed.called =>
        LET name == composed.instanceType.InstanceType
            B == composed.offerings
            Marked(items) ==
                createOfferings(composed.instanceType, composed.zones,
                                [unavailableOfferings EXCEPT !.items = items],
                                pricingProvider)
        IN  /\ \A o \in BagToSet(B) :
                   o.Available <=>
                       /\ <<name, o.Zone, o.CapacityType>> \notin unavailableOfferings.items
                       /\ PriceFound(pricingProvider, name, o.Zone, o.CapacityType)
            /\ \A triple \in ({name} \X ComposeZones \X Recognized)
                                  \ unavailableOfferings.items :
                   LET A == Marked(unavailableOfferings.items \cup {triple})
                   IN  /\ {<<o.Zone, o.CapacityType>> : o \in BagToSet(A)}
                              = {<<o.Zone, o.CapacityType>> : o \in BagToSet(B)}
                       /\ \A o \in BagToSet(B) :
                              AvailableAt(A, o.Zone, o.CapacityType) <=>
                                  /\ o.Available
                                  /\ <<o.Zone, o.CapacityType>> # <<triple[2], triple[3]>>

\* C9 witness: a priced offering the tracker marks is unavailable while another
\* offering of the same type and zone and one of the same type and option are
\* available.
C9_Witness ==
    /\ composed.called
    /\ <<"m5", "a", Spot>> \in unavailableOfferings.items
    /\ PriceFound(pricingProvider, "m5", "a", Spot)
    /\ \E o \in BagToSet(composed.offerings) :
           o.Zone = "a" /\ o.CapacityType = Spot /\ ~o.Available
    /\ AvailableAt(composed.offerings, "a", OnDemand)
    /\ AvailableAt(composed.offerings, "b", Spot)

-----------------------------------------------------------------------------
(* Properties of List, under Spec *)

Called == last.err # NoCall                   \* the last step was a List call
Succeeded == Called /\ last.err = Nil

\* two caches hold the same items in the same order
SameCache(c1, c2) ==
    /\ Len(c1) = Len(c2)
    /\ \A i \in DOMAIN c1 : c1[i].key = c2[i].key /\ c1[i].value = c2[i].value

CachedInstanceTypes(c) == CacheGet(c, InstanceTypesCacheKey).item
CachedZones(c, nodeTemplate) == CacheGet(c, InstanceTypeZonesCacheKey(nodeTemplate)).item

\* the composite key of a request when the catalog and the zone map are cached
WarmKey(c, seqNum, uo, kc, nodeTemplate) ==
    ListCacheKey(seqNum, uo.SeqNum, nodeTemplate, CachedZones(c, nodeTemplate), kc)

\* the catalog, the zone map and the list of the request are all cached
Warm(c, seqNum, uo, kc, nodeTemplate) ==
    /\ CacheHas(c, InstanceTypesCacheKey)
    /\ CacheHas(c, InstanceTypeZonesCacheKey(nodeTemplate))
    /\ CacheHas(c, WarmKey(c, seqNum, uo, kc, nodeTemplate))

\* C1. Idempotence: a successful List leaves the catalog, the zone map and the
\* list it returned cached; and a List called again with the same arguments
\* while these are live and the two counters are as they were (nothing expired,
\* no counter changed) returns the same list, makes no upstream call and
\* changes neither the cache nor the catalog sequence number.
C1_Idempotence ==
    [][Called' =>
          /\ last'.err = Nil =>
                 /\ Warm(cache', instanceTypesSeqNum', unavailableOfferings',
                         last'.kc, last'.nodeTemplate)
                 /\ last'.key = WarmKey(cache', instanceTypesSeqNum', unavailableOfferings',
                                        last'.kc, last'.nodeTemplate)
                 /\ CacheGet(cache', last'.key).item = last'.result
          /\ Warm(cache, instanceTypesSeqNum, unavailableOfferings,
                  last'.kc, last'.nodeTemplate) =>
                 /\ last'.err = Nil
                 /\ last'.result = CacheGet(cache, WarmKey(cache, instanceTypesSeqNum,
                                                           unavailableOfferings, last'.kc,
                                                           last'.nodeTemplate)).item
                 /\ last'.calls = {}
                 /\ SameCache(cache', cache)
                 /\ instanceTypesSeqNum' = instanceTypesSeqNum
          /\ (Succeeded /\ last.kc = last'.kc /\ last.nodeTemplate = last'.nodeTemplate) =>
                 /\ last'.err = Nil
                 /\ last'.result = last.result
                 /\ last'.calls = {}
                 /\ SameCache(cache', cache)
                 /\ instanceTypesSeqNum' = instanceTypesSeqNum
      ]_vars

\* C1 witness: a call served from the cache, with no upstream call, after the
\* price tables have changed.
C1_Witness ==
    /\ Succeeded /\ last.hit /\ last.calls = {}
    /\ BagCardinality(last.result) = 2
    /\ pricingProvider # FullPrices

\* the list List composes from what the cache and the collaborators hold now
FreshList(kc, nodeTemplate) ==
    Compose(CachedInstanceTypes(cache), CachedZones(cache, nodeTemplate), kc, nodeTemplate, Env)

\* C2. Cache validity on hit: a list returned from the composite cache equals
\* the list composed afresh from the cached catalog and zone map and the
\* current tracker content and price tables.
C2_CacheValidOnHit ==
    (Succeeded /\ last.hit) => last.result = FreshList(last.kc, last.nodeTemplate)

\* the list composed from what cache c and collaborators env hold
FreshListIn(c, env, kc, nodeTemplate) ==
    Compose(CachedInstanceTypes(c), CachedZones(c, nodeTemplate), kc, nodeTemplate, env)

\* C3. Cache invalidation: a list List returns is never one stored under an
\* older catalog sequence number, a hit returns the item stored under the key
\* of the current number, and a call in which the number was incremented does
\* not hit: it composes the list from the refreshed catalog and stores it under
\* a key that was not in the cache.
C3_CacheInvalidation ==
    [][(Called' /\ last'.err = Nil) =>
          /\ \A n \in 0..(instanceTypesSeqNum' - 1) :
                 last'.key # ListCacheKey(n, unavailableOfferings'.SeqNum,
                                          last'.nodeTemplate,
                                          CachedZones(cache', last'.nodeTemplate), last'.kc)
          /\ last'.hit =>
                 /\ CacheHas(cache, last'.key)
                 /\ CacheGet(cache, last'.key).item = last'.result
          /\ instanceTypesSeqNum' > instanceTypesSeqNum =>
                 /\ ~last'.hit
                 /\ ~CacheHas(cache, last'.key)
                 /\ CacheGet(cache', last'.key).item = last'.result
                 /\ last'.result = FreshListIn(cache', Env', last'.kc, last'.nodeTemplate)
      ]_vars

\* C3 witness: after a refresh made the sequence number 2, a call composed its
\* list anew while the list cached for the same arguments under number 1 was
\* still live.
C3_Witness ==
    /\ Succeeded /\ ~last.hit
    /\ instanceTypesSeqNum = 2
    /\ CacheHas(cache, ListCacheKey(1, unavailableOfferings.SeqNum, last.nodeTemplate,
                                    CachedZones(cache, last.nodeTemplate), last.kc))
    /\ CacheHas(cache, last.key)

\* C4. The catalog sequence number increases across a catalog refresh exactly
\* if the fetched catalog differs from the catalog cached before.
C4_SeqNumIncreasesIffContentChanged ==
    [][(Called' /\ DescribeInstanceTypes \in last'.calls /\ ~last'.up.typesFailed) =>
          (instanceTypesSeqNum' > instanceTypesSeqNum
              <=> HasChanged(cm.instanceTypes, CachedInstanceTypes(cache')))
      ]_vars

\* C5. Empty subnet match fails closed: when the zone map is not cached and
\* the subnet provider finds no subnet, List returns the no-subnets error and
\* no list, does not query the zonal offerings, and stores neither a zone map
\* nor a list.
C5_EmptySubnetMatchFailsClosed ==
    [][(/\ Called'
        /\ ~last'.up.typesFailed /\ ~last'.up.listFailed
        /\ ~CacheHas(cache, InstanceTypeZonesCacheKey(last'.nodeTemplate))
        /\ subnets[HashSubnetSelector(last'.nodeTemplate.SubnetSelector)] = << >>) =>
          /\ last'.err = ErrNoSubnets
          /\ last'.result = EmptyBag
          /\ SubnetList \in last'.calls
          /\ DescribeInstanceTypeOfferings \notin last'.calls
          /\ CacheKeys(cache') \ CacheKeys(cache) \subseteq {InstanceTypesCacheKey}
      ]_vars

\* C5 witness: a call that ended with the no-subnets error.
C5_Witness == Called /\ last.err = ErrNoSubnets /\ SubnetList \in last.calls

\* C6. All-or-nothing catalog refresh: when the catalog query fails, after any
\* number of pages, List returns that error and no list, calls nothing else,
\* leaves the cache and the sequence number as they were, with no catalog in
\* the cache; and a List called while no catalog is cached queries EC2.
C6_AllOrNothingCatalogRefresh ==
    [][Called' =>
          /\ last'.up.typesFailed =>
                 /\ last'.err = ErrInstanceTypes
                 /\ last'.result = EmptyBag
                 /\ last'.calls = {DescribeInstanceTypes}
                 /\ SameCache(cache', cache)
                 /\ instanceTypesSeqNum' = instanceTypesSeqNum
                 /\ ~CacheHas(cache', InstanceTypesCacheKey)
          /\ ~CacheHas(cache, InstanceTypesCacheKey) =>
                 DescribeInstanceTypes \in last'.calls
          /\ (Called /\ last.err = ErrInstanceTypes) =>
                 DescribeInstanceTypes \in last'.calls
      ]_vars

\* C6 witness: the catalog query failed after its first page had come in.
C6_Witness ==
    /\ Called /\ last.err = ErrInstanceTypes
    /\ last.up.typesDelivered = 1
    /\ Len(ec2InstanceTypes) = 2

\* C7 as claimed: a List call that returns an error leaves the cache with
\* exactly the items it held before.
C7_ErrorLeavesCacheUntouched ==
    [][(Called' /\ last'.err # Nil) => SameCache(cache', cache)]_vars

\* the records EC2 lists, over all pages
ListedInstanceTypes ==
    UNION {Range(ec2InstanceTypes[i]) : i \in DOMAIN ec2InstanceTypes}

\* C7, amended. A List call that returns an error stores no zone map and no
\* list: it leaves the cache as it was, except that a call failing after its
\* own catalog refresh has appended the complete catalog (and nothing else).
C7_ErrorCachesNoPartialState ==
    [][(Called' /\ last'.err # Nil) =>
          \/ SameCache(cache', cache)
          \/ /\ last'.err # ErrInstanceTypes
             /\ ~CacheHas(cache, InstanceTypesCacheKey)
             /\ instanceTypesSeqNum' = instanceTypesSeqNum + 1
             /\ Len(cache') = Len(cache) + 1
             /\ SameCache(SubSeq(cache', 1, Len(cache)), cache)
             /\ cache'[Len(cache')].key = InstanceTypesCacheKey
             /\ LET catalog == cache'[Len(cache')].value
                IN  /\ DOMAIN catalog = {i.InstanceType : i \in ListedInstanceTypes}
                    /\ \A name \in DOMAIN catalog :
                           /\ catalog[name] \in ListedInstanceTypes
                           /\ catalog[name].InstanceType = name
      ]_vars

\* C7 witness: a call that refreshed the catalog and then failed in the zonal
\* offerings query.
C7_Witness ==
    /\ Called /\ last.err = ErrOfferings
    /\ DescribeInstanceTypes \in last.calls
    /\ CacheHas(cache, InstanceTypesCacheKey)

-----------------------------------------------------------------------------
(* More properties of List, under Spec *)

\* the instance types of list B named `name`
InstanceTypesNamed(B, name) == {it \in BagToSet(B) : it.Name = name}

\* C14. Every successful List returns exactly one instance type for each name
\* of the catalog it used, the cached catalog; a name the zone map has no entry
\* for is among them, with no offering.
C14_OnePerCatalogName ==
    Succeeded =>
        LET catalog == CachedInstanceTypes(cache)
            zoneMap == CachedZones(cache, last.nodeTemplate)
        IN  /\ {it.Name : it \in BagToSet(last.result)} = DOMAIN catalog
            /\ \A name \in DOMAIN catalog :
                   /\ Cardinality(InstanceTypesNamed(last.result, name)) = 1
                   /\ \A it \in InstanceTypesNamed(last.result, name) :
                          /\ CopiesIn(it, last.result) = 1
                          /\ name \notin DOMAIN zoneMap => it.Offerings = EmptyBag

\* C14 witness: a list of two instance types, one of them with no entry in the
\* zone map and no offering.
C14_Witness ==
    /\ Succeeded
    /\ BagCardinality(last.result) = 2
    /\ "c5" \notin DOMAIN CachedZones(cache, last.nodeTemplate)
    /\ \E it \in BagToSet(last.result) : it.Name = "c5" /\ it.Offerings = EmptyBag

\* C17. Tracker changes defeat the composite cache: a successful List returns
\* every offering the tracker marks as unavailable, whatever lists were cached
\* before the mark.
C17_MarkedOfferingUnavailable ==
    Succeeded =>
        \A it \in BagToSet(last.result) :
            \A o \in BagToSet(it.Offerings) :
                <<it.Name, o.Zone, o.CapacityType>> \in unavailableOfferings.items
                    => ~o.Available

\* C17 witness: the list for the same arguments, cached before the mark with
\* the marked offering available, is still live when List returns that
\* offering unavailable.
C17_Witness ==
    /\ Succeeded
    /\ unavailableOfferings.items # {}
    /\ \E triple \in unavailableOfferings.items :
           /\ \E it \in BagToSet(last.result) :
                  /\ it.Name = triple[1]
                  /\ \E o \in BagToSet(it.Offerings) :
                         o.Zone = triple[2] /\ o.CapacityType = triple[3] /\ ~o.Available
           /\ LET before == ListCacheKey(instanceTypesSeqNum,
                                         unavailableOfferings.SeqNum - 1, last.nodeTemplate,
                                         CachedZones(cache, last.nodeTemplate), last.kc)
              IN  /\ CacheHas(cache, before)
                  /\ \E it \in BagToSet(CacheGet(cache, before).item) :
                         /\ it.Name = triple[1]
                         /\ \E o \in BagToSet(it.Offerings) :
                                o.Zone = triple[2] /\ o.CapacityType = triple[3]
                                    /\ o.Available

\* the offerings EC2 lists, over all pages
ListedOfferings ==
    UNION {Range(ec2InstanceTypeOfferings[i]) : i \in DOMAIN ec2InstanceTypeOfferings}

\* the zones of the subnets the subnet provider finds for a node template
SubnetZones(nodeTemplate) ==
    {sn.AvailabilityZone :
        sn \in Range(subnets[HashSubnetSelector(nodeTemplate.SubnetSelector)])}

\* the zones of the listed offerings of instance type `name` that are in `zones`
OfferedZones(name, zones) ==
    {o.Location : o \in {x \in ListedOfferings : x.InstanceType = name}} \cap zones

\* the zone maps in cache c
ZoneMapsOf(c) ==
    {c[i].value : i \in {j \in DOMAIN c :
                            \E nodeTemplate \in NodeTemplates :
                                c[j].key = InstanceTypeZonesCacheKey(nodeTemplate)}}

\* C18. Zone-map construction: the map a List call builds on a zone-map miss
\* and caches maps each instance type to exactly the zones that EC2 lists for
\* it, over all pages, and that are the zone of a subnet found; and no cached
\* zone map maps an instance type to the empty set.
C18_ZoneMapConstruction ==
    [][/\ (Called' /\ last'.err = Nil /\ DescribeInstanceTypeOfferings \in last'.calls) =>
              LET zoneMap == CachedZones(cache', last'.nodeTemplate)
                  zones == SubnetZones(last'.nodeTemplate)
              IN  /\ DOMAIN zoneMap = {name \in InstanceTypeNames :
                                          OfferedZones(name, zones) # {}}
                  /\ \A name \in DOMAIN zoneMap : zoneMap[name] = OfferedZones(name, zones)
       /\ \A zoneMap \in ZoneMapsOf(cache') : \A name \in DOMAIN zoneMap : zoneMap[name] # {}
      ]_vars

\* C18 witness: a zone map built from two pages that list a zone with no
\* subnet, a pair twice and an instance type in one zone only.
C18_Witness ==
    /\ Succeeded /\ DescribeInstanceTypeOfferings \in last.calls
    /\ Len(ec2InstanceTypeOfferings) = 2
    /\ CachedZones(cache, last.nodeTemplate)["m5"] = {"a", "b"}
    /\ CachedZones(cache, last.nodeTemplate)["c5"] = {"a"}
    /\ \E o \in ListedOfferings : o.InstanceType = "m5" /\ o.Location = "c"

-----------------------------------------------------------------------------
(* List called for node templates that share a subnet selector *)

SharingTemplates ==
    NodeTemplates \cup {[UID |-> "uid3", SubnetSelector |-> SubnetSelectors[1]]}

NextShare ==
    \/ \E kc \in KubeletConfigurations, nodeTemplate \in SharingTemplates :
           \E up \in Upstream(nodeTemplate) : List(kc, nodeTemplate, up)
    \/ Expire
    \/ \E pages \in OfferingListings : UpdateInstanceTypeOfferings(pages)
    \/ \E found \in SubnetLists : UpdateSubnets(ChangingSelector, found)

SpecShare == Init /\ [][NextShare]_vars

\* C13. Zone-map sharing by selector content: while the zone map cached by a
\* call for one node template is live, a call for any node template with the
\* same subnet selector uses that map without calling the subnet provider or
\* the zonal offerings query and leaves it cached as it is; node templates
\* share a zone-map key exactly if their selectors are equal, and a call whose
\* selector has no cached map asks the subnet provider although the map of
\* another selector is cached.
C13_ZoneMapSharedBySelector ==
    [][(Called' /\ ~last'.up.typesFailed) =>
          /\ \A other \in SharingTemplates :
                 (/\ other.SubnetSelector = last'.nodeTemplate.SubnetSelector
                  /\ CacheHas(cache, InstanceTypeZonesCacheKey(other))) =>
                     /\ last'.err = Nil
                     /\ SubnetList \notin last'.calls
                     /\ DescribeInstanceTypeOfferings \notin last'.calls
                     /\ CachedZones(cache', other) = CachedZones(cache, other)
                     /\ last'.key = ListCacheKey(instanceTypesSeqNum',
                                                 unavailableOfferings'.SeqNum,
                                                 last'.nodeTemplate,
                                                 CachedZones(cache, other), last'.kc)
          /\ \A t1, t2 \in SharingTemplates :
                 InstanceTypeZonesCacheKey(t1) = InstanceTypeZonesCacheKey(t2)
                     <=> t1.SubnetSelector = t2.SubnetSelector
          /\ (\A other \in SharingTemplates :
                  CacheHas(cache, InstanceTypeZonesCacheKey(other))
                      => other.SubnetSelector # last'.nodeTemplate.SubnetSelector) =>
                 SubnetList \in last'.calls
      ]_vars

\* C13 witness: a call for uid3 made no zone query, as the list of uid1, which
\* has the same selector, was cached with its zone map, although the subnets
\* of the selector have changed since.
C13_Witness ==
    /\ Succeeded /\ last.nodeTemplate.UID = "uid3" /\ ~last.hit
    /\ SubnetList \notin last.calls
    /\ \E kc \in KubeletConfigurations, nodeTemplate \in SharingTemplates :
           /\ nodeTemplate.UID = "uid1"
           /\ CacheHas(cache, WarmKey(cache, instanceTypesSeqNum, unavailableOfferings,
                                       kc, nodeTemplate))
    /\ SubnetZones(last.nodeTemplate) # {"a", "b"}
    /\ DOMAIN CachedZones(cache, last.nodeTemplate) = {"m5", "c5"}

-----------------------------------------------------------------------------------------------------------------------------------------------------
(* List called again and again for one node template, with upstream calls  *)
(* that succeed, while the items of the cache expire                       *)

LiveTemplate == CHOOSE nodeTemplate \in NodeTemplates : nodeTemplate.UID = "uid1"

\* every upstream call that is made delivers all its pages
NoFailure ==
    [typesDelivered |-> Len(ec2InstanceTypes), typesFailed |-> FALSE, listFailed |-> FALSE,
     offeringsDelivered |-> Len(ec2InstanceTypeOfferings), offeringsFailed |-> FALSE]

\* the items a call of List for the node template would add to the cache
ItemsToAdd(nodeTemplate) ==
    IF /\ CacheHas(cache, InstanceTypesCacheKey)
       /\ CacheHas(cache, InstanceTypeZonesCacheKey(nodeTemplate))
    THEN IF \E kc \in KubeletConfigurations :
                CacheHas(cache, WarmKey(cache, instanceTypesSeqNum, unavailableOfferings,
                                        kc, nodeTemplate))
         THEN 0 ELSE 1
    ELSE IF \/ CacheHas(cache, InstanceTypesCacheKey)
            \/ CacheHas(cache, InstanceTypeZonesCacheKey(nodeTemplate))
    THEN 2 ELSE 3

\* the bounds of the model allow no call of List now
ListBlocked ==
    \/ ~CacheHas(cache, InstanceTypesCacheKey) /\ instanceTypesSeqNum = MaxSeqNum
    \/ Len(cache) + ItemsToAdd(LiveTemplate) > MaxCacheItems

\* List is called far more often than an item reaches its TTL: between two
\* expiries there is a call, as long as the bounds of the model allow one.
ExpireLive == (Called \/ ListBlocked) /\ Expire

NextLive ==
    \/ \E kc \in KubeletConfigurations : List(kc, LiveTemplate, NoFailure)
    \/ ExpireLive
    \/ \E offering \in Markable : MarkUnavailable(offering)
    \/ \E offering \in Markable : UnavailableExpire(offering)
    \/ \E tables \in PriceTables : UpdatePricing(tables)
    \/ \E pages \in Catalogs : UpdateInstanceTypes(pages)
    \/ \E pages \in OfferingListings : UpdateInstanceTypeOfferings(pages)
    \/ \E found \in SubnetLists \ {<< >>} : UpdateSubnets(ChangingSelector, found)

\* Every item reaches its TTL.
SpecLive == Init /\ [][NextLive]_vars /\ WF_vars(ExpireLive)

\* the list composed from what the collaborators hold now, with nothing cached
UpstreamList(kc, nodeTemplate) ==
    Compose(InstanceTypesOfPages(ec2InstanceTypes, Len(ec2InstanceTypes)),
            InstanceTypeZonesOfPages(ec2InstanceTypeOfferings, Len(ec2InstanceTypeOfferings),
                                     SubnetZones(nodeTemplate)),
            kc, nodeTemplate, Env)

\* List has just returned the list that reflects every upstream input
Reflects == Succeeded /\ last.result = UpstreamList(last.kc, last.nodeTemplate)

\* C12. Bounded staleness: if List keeps being called (it returns again and
\* again, as long as the bounds of the model allow a call), then after every
\* change of an upstream input, made while the model still allows a catalog
\* refresh, List eventually returns the list that reflects the upstream inputs
\* as they are then, unless an input changes once more before; the items of
\* the cache expire by the fairness of SpecLive.
C12_BoundedStaleness ==
    []<>(Succeeded \/ ListBlocked)
        => \A n \in 1..MaxChanges :
               (changes = n /\ instanceTypesSeqNum < MaxSeqNum)
                   ~> (Reflects \/ changes > n)

\* C12 witness: after the price tables changed, a List served the list cached
\* before, and a later state has the list that reflects the new prices.
C12_Witness ==
    /\ Reflects /\ ~last.hit
    /\ changes > 0
    /\ pricingProvider = PartialPrices
    /\ instanceTypesSeqNum < MaxSeqNum

-----------------------------------------------------------------------------
(* Concurrent calls of List.  The provider has no lock of its own: the
   go-cache operations and the atomic add are each one step, and the calls
   of different goroutines interleave between them.  Every goroutine of
   Callers makes one call, with the same kubelet configuration and the same
   node template. *)

ConcurrentKubeletConfiguration == CHOOSE kc \in KubeletConfigurations : TRUE

\* a miss of the catalog that parks an empty map in the cache before the
\* pages are fetched
InstanceTypesReserved(c) == CacheSetDefault(c, InstanceTypesCacheKey, EmptyMap)

\* line 212: after a miss the new map is a local of the call, the cache is
\* as it was
InstanceTypesMissed(c) == c

\* a step of goroutine g that leaves the counters alone: its call moves to
\* `call`, and its synchronizing operation has seen the counters as they are
Step(g, call) ==
    inflight' = [inflight EXCEPT ![g] =
                     [call EXCEPT !.seen = instanceTypesSeqNum,
                                  !.unavailableSeen = unavailableOfferings.SeqNum]]

\* line 209: p.cache.Get(InstanceTypesCacheKey)
GetInstanceTypes(g) ==
    /\ inflight[g].pc = "getInstanceTypes"
    /\ LET cached == CacheGet(cache, InstanceTypesCacheKey)
       IN  IF cached.ok
           THEN /\ cache' = cache
                /\ Step(g, [inflight[g] EXCEPT !.instanceTypes = cached.item,
                                               !.pc = "getInstanceTypeZones"])
           ELSE /\ cache' = InstanceTypesMissed(cache)
                /\ Step(g, [inflight[g] EXCEPT !.pc = "describeInstanceTypes"])
    /\ UNCHANGED <<last, composed, instanceTypesSeqNum, cm, unavailableOfferings,
                   pricingProvider, ec2InstanceTypes, ec2InstanceTypeOfferings, subnets,
                   changes>>

\* lines 213-229: the pages of DescribeInstanceTypes fill the local map
CallDescribeInstanceTypes(g) ==
    /\ inflight[g].pc = "describeInstanceTypes"
    /\ Step(g, [inflight[g] EXCEPT
                    !.instanceTypes = InstanceTypesOfPages(ec2InstanceTypes,
                                                           Len(ec2InstanceTypes)),
                    !.pc = "addSeqNum"])
    /\ UNCHANGED <<last, composed, cache, instanceTypesSeqNum, cm, unavailableOfferings,
                   pricingProvider, ec2InstanceTypes, ec2InstanceTypeOfferings, subnets,
                   changes>>

\* lines 229-231: DescribeInstanceTypes fails and List returns the error
FailDescribeInstanceTypes(g) ==
    /\ inflight[g].pc = "describeInstanceTypes"
    /\ Step(g, [inflight[g] EXCEPT !.err = ErrInstanceTypes, !.pc = "done"])
    /\ UNCHANGED <<last, composed, cache, instanceTypesSeqNum, cm, unavailableOfferings,
                   pricingProvider, ec2InstanceTypes, ec2InstanceTypeOfferings, subnets,
                   changes>>

\* lines 232-236: the change monitor, then atomic.AddUint64
AddSeqNum(g) ==
    /\ inflight[g].pc = "addSeqNum"
    /\ cm' = [cm EXCEPT !.instanceTypes =
                            [seen |-> TRUE, value |-> inflight[g].instanceTypes]]
    /\ instanceTypesSeqNum' = AddUint64(instanceTypesSeqNum, 1)
    /\ inflight' = [inflight EXCEPT ![g] =
                        [@ EXCEPT !.refreshedTo = instanceTypesSeqNum',
                                  !.seen = instanceTypesSeqNum',
                                  !.unavailableSeen = unavailableOfferings.SeqNum,
                                  !.pc = "setInstanceTypes"]]
    /\ UNCHANGED <<last, composed, cache, unavailableOfferings, pricingProvider,
                   ec2InstanceTypes, ec2InstanceTypeOfferings, subnets, changes>>

\* line 237: p.cache.SetDefault(InstanceTypesCacheKey, instanceTypes)
SetInstanceTypes(g) ==
    /\ inflight[g].pc = "setInstanceTypes"
    /\ cache' = CacheSetDefault(cache, InstanceTypesCacheKey, inflight[g].instanceTypes)
    /\ Step(g, [inflight[g] EXCEPT !.pc = "getInstanceTypeZones"])
    /\ UNCHANGED <<last, composed, instanceTypesSeqNum, cm, unavailableOfferings,
                   pricingProvider, ec2InstanceTypes, ec2InstanceTypeOfferings, subnets,
                   changes>>

\* line 168: p.cache.Get(cacheKey) of the zone map
GetInstanceTypeZones(g) ==
    /\ inflight[g].pc = "getInstanceTypeZones"
    /\ LET cached == CacheGet(cache, InstanceTypeZonesCacheKey(LiveTemplate))
       IN  IF cached.ok
           THEN Step(g, [inflight[g] EXCEPT !.instanceTypeZones = cached.item,
                                            !.pc = "key"])
           ELSE Step(g, [inflight[g] EXCEPT !.pc = "describeInstanceTypeOfferings"])
    /\ UNCHANGED <<last, composed, cache, instanceTypesSeqNum, cm, unavailableOfferings,
                   pricingProvider, ec2InstanceTypes, ec2InstanceTypeOfferings, subnets,
                   changes>>

\* lines 173-202: the subnets of the selector, the pages of
\* DescribeInstanceTypeOfferings and the change monitor
CallDescribeInstanceTypeOfferings(g) ==
    /\ inflight[g].pc = "describeInstanceTypeOfferings"
    /\ LET found == subnets[HashSubnetSelector(LiveTemplate.SubnetSelector)]
           zones == {found[i].AvailabilityZone : i \in DOMAIN found}
       IN  IF Len(found) = 0
           THEN /\ cm' = cm
                /\ Step(g, [inflight[g] EXCEPT !.err = ErrNoSubnets, !.pc = "done"])
           ELSE /\ cm' = [cm EXCEPT !.zonalOfferings =
                                        [seen |-> TRUE,
                                         value |-> LiveTemplate.SubnetSelector]]
                /\ Step(g, [inflight[g] EXCEPT
                                !.instanceTypeZones =
                                    InstanceTypeZonesOfPages(ec2InstanceTypeOfferings,
                                                             Len(ec2InstanceTypeOfferings),
                                                             zones),
                                !.pc = "setInstanceTypeZones"])
    /\ UNCHANGED <<last, composed, cache, instanceTypesSeqNum, unavailableOfferings,
                   pricingProvider, ec2InstanceTypes, ec2InstanceTypeOfferings, subnets,
                   changes>>

\* line 203: p.cache.SetDefault(cacheKey, instanceTypeZones)
SetInstanceTypeZones(g) ==
    /\ inflight[g].pc = "setInstanceTypeZones"
    /\ cache' = CacheSetDefault(cache, InstanceTypeZonesCacheKey(LiveTemplate),
                                inflight[g].instanceTypeZones)
    /\ Step(g, [inflight[g] EXCEPT !.pc = "key"])
    /\ UNCHANGED <<last, composed, instanceTypesSeqNum, cm, unavailableOfferings,
                   pricingProvider, ec2InstanceTypes, ec2InstanceTypeOfferings, subnets,
                   changes>>

\* lines 104-106: the composite key.  The two sequence numbers are read
\* without synchronization while other goroutines add to them: each read
\* yields a value the counter has had since the last synchronizing operation
\* of this goroutine.
ComputeKey(g) ==
    /\ inflight[g].pc = "key"
    /\ \E seqNum \in inflight[g].seen .. instanceTypesSeqNum :
           \E unavailableSeqNum \in inflight[g].unavailableSeen ..
                                        unavailableOfferings.SeqNum :
               Step(g, [inflight[g] EXCEPT
                            !.seqNum = seqNum,
                            !.unavailableSeqNum = unavailableSeqNum,
                            !.key = ListCacheKey(seqNum, unavailableSeqNum, LiveTemplate,
                                                 inflight[g].instanceTypeZones,
                                                 ConcurrentKubeletConfiguration),
                            !.pc = "getList"])
    /\ UNCHANGED <<last, composed, cache, instanceTypesSeqNum, cm, unavailableOfferings,
                   pricingProvider, ec2InstanceTypes, ec2InstanceTypeOfferings, subnets,
                   changes>>

\* lines 108-110: p.cache.Get(key); a hit is returned as it is
GetList(g) ==
    /\ inflight[g].pc = "getList"
    /\ LET item == CacheGet(cache, inflight[g].key)
       IN  IF item.ok
           THEN Step(g, [inflight[g] EXCEPT !.result = item.item, !.hit = TRUE,
                                            !.pc = "done"])
           ELSE Step(g, [inflight[g] EXCEPT !.pc = "compose"])
    /\ UNCHANGED <<last, composed, cache, instanceTypesSeqNum, cm, unavailableOfferings,
                   pricingProvider, ec2InstanceTypes, ec2InstanceTypeOfferings, subnets,
                   changes>>

\* lines 112-117: the list is composed from the locals of the call, the
\* tracker and the prices
ComposeList(g) ==
    /\ inflight[g].pc = "compose"
    /\ Step(g, [inflight[g] EXCEPT
                    !.result = Compose(inflight[g].instanceTypes,
                                       inflight[g].instanceTypeZones,
                                       ConcurrentKubeletConfiguration, LiveTemplate, Env),
                    !.pc = "setList"])
    /\ UNCHANGED <<last, composed, cache, instanceTypesSeqNum, cm, unavailableOfferings,
                   pricingProvider, ec2InstanceTypes, ec2InstanceTypeOfferings, subnets,
                   changes>>

\* lines 118-119: p.cache.SetDefault(key, result), and the list is returned
SetList(g) ==
    /\ inflight[g].pc = "setList"
    /\ cache' = CacheSetDefault(cache, inflight[g].key, inflight[g].result)
    /\ Step(g, [inflight[g] EXCEPT !.pc = "done"])
    /\ UNCHANGED <<last, composed, instanceTypesSeqNum, cm, unavailableOfferings,
                   pricingProvider, ec2InstanceTypes, ec2InstanceTypeOfferings, subnets,
                   changes>>

NextConcurrent ==
    \/ \E g \in Callers : GetInstanceTypes(g)
    \/ \E g \in Callers : CallDescribeInstanceTypes(g)
    \/ \E g \in Callers : FailDescribeInstanceTypes(g)
    \/ \E g \in Callers : AddSeqNum(g)
    \/ \E g \in Callers : SetInstanceTypes(g)
    \/ \E g \in Callers : GetInstanceTypeZones(g)
    \/ \E g \in Callers : CallDescribeInstanceTypeOfferings(g)
    \/ \E g \in Callers : SetInstanceTypeZones(g)
    \/ \E g \in Callers : ComputeKey(g)
    \/ \E g \in Callers : GetList(g)
    \/ \E g \in Callers : ComposeList(g)
    \/ \E g \in Callers : SetList(g)
    \/ Expire
    \/ \E offering \in Markable : MarkUnavailable(offering)
    \/ \E pages \in Catalogs : UpdateInstanceTypes(pages)

SpecConcurrent == Init /\ [][NextConcurrent]_vars

(* Properties of concurrent calls, under SpecConcurrent *)

\* C19: the catalog sequence number is monotonic.  No step of a call, no
\* failure and no expiry decreases or resets it, and every catalog refresh
\* gives it a value above the value of every refresh before it, so that no
\* catalog component of a composite key is shared by two refreshes.
C19_SeqNumMonotonic ==
    [][/\ instanceTypesSeqNum' >= instanceTypesSeqNum
       /\ \A g \in Callers :
              inflight'[g].refreshedTo # inflight[g].refreshedTo
                  => /\ instanceTypesSeqNum' > instanceTypesSeqNum
                     /\ inflight'[g].refreshedTo = instanceTypesSeqNum'
                     /\ \A h \in Callers :
                            inflight[h].refreshedTo < instanceTypesSeqNum']_vars

\* two goroutines have each refreshed the catalog
C19_Witness ==
    /\ instanceTypesSeqNum = 2
    /\ \A g \in Callers : inflight[g].refreshedTo # 0
    /\ \E g \in Callers : inflight[g].pc = "done"

\* the calls that have returned
Returned == {g \in Callers : inflight[g].pc = "done"}

\* C11: concurrent calls with identical inputs against a cold cache, with
\* upstream data that neither changes nor fails, are safe: in every
\* interleaving of their cache reads, provider calls and cache writes, every
\* call that has returned has returned without error, and all of them have
\* returned lists of equal content, the list the upstream data compose.
C11_ConcurrentCallsAgree ==
    (changes = 0 /\ \A g \in Callers : inflight[g].err # ErrInstanceTypes)
        => \A g \in Returned :
               /\ inflight[g].err = Nil
               /\ inflight[g].result =
                      UpstreamList(ConcurrentKubeletConfiguration, LiveTemplate)
               /\ \A h \in Returned : inflight[h].result = inflight[g].result

\* all calls have returned, one from the list another call stored, one from
\* its own composition
C11_Witness ==
    /\ changes = 0
    /\ Returned = Callers
    /\ \A g \in Callers : inflight[g].err = Nil /\ inflight[g].result # EmptyBag
    /\ \E g \in Callers : inflight[g].hit
    /\ \E g \in Callers : ~inflight[g].hit

\* the names of the instance types of a list
NamesOf(list) == {instanceType.Name : instanceType \in BagToSet(list)}

\* the catalog snapshots whose refresh set the sequence number to n
SnapshotsOf(n) == {inflight[h].instanceTypes : h \in {c \in Callers : inflight[c].refreshedTo = n}}

\* C15: snapshot consistency under concurrency.  A list stored under a
\* composite key whose catalog component is n, and a list a call returns for
\* such a key, has one instance type for every entry of the catalog snapshot
\* whose refresh set the sequence number to n, and no other.
C15_SnapshotConsistency ==
    \A g \in Callers :
        \A snapshot \in SnapshotsOf(inflight[g].seqNum) :
            /\ (inflight[g].key # "" /\ CacheHas(cache, inflight[g].key))
                   => NamesOf(CacheGet(cache, inflight[g].key).item) = DOMAIN snapshot
            /\ (g \in Returned /\ inflight[g].err = Nil)
                   => NamesOf(inflight[g].result) = DOMAIN snapshot

\* the composite keys the calls have built
CompositeKeys == {inflight[g].key : g \in Callers} \ {""}

\* C16: composite cache entries are immutable after insertion.  No step
\* replaces the list stored under a composite key with a list of different
\* content while the entry is live.
C16_CompositeEntriesImmutable ==
    [][\A key \in CompositeKeys :
           (CacheHas(cache, key) /\ CacheHas(cache', key))
               => CacheGet(cache', key).item = CacheGet(cache, key).item]_vars

====
